---- MODULE Spec2Model ----
(***************************************************************************)
(* A model of the Table engine of json_db (src/python/json_db.py).         *)
(*                                                                         *)
(* Python objects are modelled with their identity: the list object that   *)
(* holds a table's rows and every row list live in a heap, because         *)
(* Table.__init__ keeps the very list it is given (self.__rows =           *)
(* obj['rows']) and Row keeps the very row list it is given.               *)
(*                                                                         *)
(* Indices stored by the program (column indices, key index, pk column     *)
(* index) are kept 0-based as in the source; a sequence s is read at       *)
(* program index i as s[i + 1].                                            *)
(***************************************************************************)
EXTENDS Integers, Sequences, FiniteSets, TLC

VARIABLES tables, lists, rowobjs, made, last, calls

vars == <<tables, lists, rowobjs, made, last, calls>>

(***************************************************************************)
(* Bounds of the model.                                                    *)
(***************************************************************************)
MaxVal == 1
MaxRows == 2
MaxInputs == 1
MaxCalls == 3

(***************************************************************************)
(* Values.  A cell holds None, an integer or a string; the strings of the  *)
(* model are the strings of decimal digits and the string "None", which    *)
(* are what str() makes of the other values.                               *)
(***************************************************************************)
Null == <<"null", 0>>
IntV(n) == <<"int", n>>
StrV(n) == <<"str", n>>
StrNone == <<"strNone", 0>>

\* Python None for the optional text fields of a description or a table.
None == "None"

\* str(v) as the key index applies it: str(1) = "1", str("1") = "1",
\* str(None) = "None".
PyStr(v) ==
  CASE v[1] = "int" -> StrV(v[2])
    [] v[1] = "null" -> StrNone
    [] OTHER -> v

RangeOf(s) == {s[i] : i \in 1..Len(s)}

\* str.lower() on the column names of the model.
\* The names of the model hold no other upper-case letters.
LowerTab == [A |-> "a", B |-> "b", C |-> "c", D |-> "d"]

Lower(s) == IF s \in DOMAIN LowerTab THEN LowerTab[s] ELSE s

\* "c" + str(i), the synthesized column names.
CName(i) == <<"c0", "c1", "c2">>[i + 1]

(***************************************************************************)
(* Table.__init__.  obj is the description: hasColumns, columnsIsList,     *)
(* columns, rows (the id of the list object given as obj['rows']),         *)
(* primary_key (None when absent or None), name.  ls and ro are the heap   *)
(* of row-list objects and of row objects; a row reference 0 is a row that *)
(* is not a list.  The result is ok = FALSE when __init__ raises.          *)
(***************************************************************************)
ColumnIndices(columns) ==
  [n \in {Lower(columns[i]) : i \in 1..Len(columns)} |->
     (CHOOSE i \in 1..Len(columns) :
        /\ Lower(columns[i]) = n
        /\ \A j \in 1..Len(columns) : Lower(columns[j]) = n => j <= i) - 1]

KeysOf(rws, ro, pk) ==
  [k \in {PyStr(ro[rws[i]][pk + 1]) : i \in 1..Len(rws)} |->
     (CHOOSE i \in 1..Len(rws) :
        /\ PyStr(ro[rws[i]][pk + 1]) = k
        /\ \A j \in 1..Len(rws) : PyStr(ro[rws[j]][pk + 1]) = k => j <= i) - 1]

NoKeys == [k \in {} |-> 0]

FailedInit == [ok |-> FALSE, t |-> <<>>]

CURRENT_TABLE_VERSION == 1

\* obj[field] if obj.has_key(field), and otherwise the default.
FieldOr(obj, field, default) ==
  IF field \in DOMAIN obj THEN obj[field] ELSE default

\* Table.__init__ without the comparison of len(r) with len(columns).
TableInitAnyLength(obj, ls, ro) ==
  LET rws == ls[obj.rows]
      synth == ~obj.hasColumns
      synthBad == \/ Len(rws) = 0
                  \/ rws[1] = 0
                  \/ Len(ro[rws[1]]) = 0
      columns == IF synth THEN [i \in 1..Len(ro[rws[1]]) |-> CName(i - 1)]
                 ELSE obj.columns
      colidx == ColumnIndices(columns)
      rowsBad == \E i \in 1..Len(rws) : rws[i] = 0
      hasPk == obj.primary_key # None
      pkBad == hasPk /\ Lower(obj.primary_key) \notin DOMAIN colidx
      pk == IF hasPk THEN colidx[Lower(obj.primary_key)] ELSE -1
  IN IF obj.hasColumns /\ ~obj.columnsIsList THEN FailedInit
     ELSE IF synth /\ synthBad THEN FailedInit
     ELSE IF rowsBad THEN FailedInit
     ELSE IF pkBad THEN FailedInit
     ELSE IF obj.kind # None /\ obj.kind # "table" THEN FailedInit
     ELSE [ok |-> TRUE,
           t |-> [columns |-> columns,
                  column_indices |-> colidx,
                  rows |-> obj.rows,
                  keys |-> IF hasPk THEN KeysOf(rws, ro, pk) ELSE NoKeys,
                  primary_key |-> obj.primary_key,
                  pk_column_index |-> pk,
                  name |-> obj.name,
                  comment |-> FieldOr(obj, "comment", None),
                  version |-> FieldOr(obj, "version", CURRENT_TABLE_VERSION)]]

\* Table.__init__ naming the synthesized columns from c1.
TableInitNamesFromOne(obj, ls, ro) ==
  LET rws == ls[obj.rows]
      synth == ~obj.hasColumns
      synthBad == \/ Len(rws) = 0
                  \/ rws[1] = 0
                  \/ Len(ro[rws[1]]) = 0
      columns == IF synth THEN [i \in 1..Len(ro[rws[1]]) |-> CName(i)]
                 ELSE obj.columns
      colidx == ColumnIndices(columns)
      rowsBad == \E i \in 1..Len(rws) :
                   \/ rws[i] = 0
                   \/ Len(ro[rws[i]]) # Len(columns)
      hasPk == obj.primary_key # None
      pkBad == hasPk /\ Lower(obj.primary_key) \notin DOMAIN colidx
      pk == IF hasPk THEN colidx[Lower(obj.primary_key)] ELSE -1
  IN IF obj.hasColumns /\ ~obj.columnsIsList THEN FailedInit
     ELSE IF synth /\ synthBad THEN FailedInit
     ELSE IF rowsBad THEN FailedInit
     ELSE IF pkBad THEN FailedInit
     ELSE IF obj.kind # None /\ obj.kind # "table" THEN FailedInit
     ELSE [ok |-> TRUE,
           t |-> [columns |-> columns,
                  column_indices |-> colidx,
                  rows |-> obj.rows,
                  keys |-> IF hasPk THEN KeysOf(rws, ro, pk) ELSE NoKeys,
                  primary_key |-> obj.primary_key,
                  pk_column_index |-> pk,
                  name |-> obj.name,
                  comment |-> FieldOr(obj, "comment", None),
                  version |-> FieldOr(obj, "version", CURRENT_TABLE_VERSION)]]

TableInit(obj, ls, ro) ==
  LET rws == ls[obj.rows]
      synth == ~obj.hasColumns
      synthBad == \/ Len(rws) = 0
                  \/ rws[1] = 0
                  \/ Len(ro[rws[1]]) = 0
      columns == IF synth THEN [i \in 1..Len(ro[rws[1]]) |-> CName(i - 1)]
                 ELSE obj.columns
      colidx == ColumnIndices(columns)
      rowsBad == \E i \in 1..Len(rws) :
                   \/ rws[i] = 0
                   \/ Len(ro[rws[i]]) # Len(columns)
      hasPk == obj.primary_key # None
      pkBad == hasPk /\ Lower(obj.primary_key) \notin DOMAIN colidx
      pk == IF hasPk THEN colidx[Lower(obj.primary_key)] ELSE -1
  IN IF obj.hasColumns /\ ~obj.columnsIsList THEN FailedInit
     ELSE IF synth /\ synthBad THEN FailedInit
     ELSE IF rowsBad THEN FailedInit
     ELSE IF pkBad THEN FailedInit
     ELSE IF obj.kind # None /\ obj.kind # "table" THEN FailedInit
     ELSE [ok |-> TRUE,
           t |-> [columns |-> columns,
                  column_indices |-> colidx,
                  rows |-> obj.rows,
                  keys |-> IF hasPk THEN KeysOf(rws, ro, pk) ELSE NoKeys,
                  primary_key |-> obj.primary_key,
                  pk_column_index |-> pk,
                  name |-> obj.name,
                  comment |-> FieldOr(obj, "comment", None),
                  version |-> FieldOr(obj, "version", CURRENT_TABLE_VERSION)]]

\* The description dictionaries the operators build: columns, rows and
\* optionally a primary key and a name.
Desc(columns, rws, pk, name) ==
  [hasColumns |-> TRUE, columnsIsList |-> TRUE, columns |-> columns,
   rows |-> rws, primary_key |-> pk, name |-> name, kind |-> None]

(***************************************************************************)
(* The heap, and how a call ends.                                          *)
(***************************************************************************)
\* The contents of the rows of table t, in order.
RowsOf(t, ls, ro) == [i \in 1..Len(ls[t.rows]) |-> ro[ls[t.rows][i]]]

\* What is recorded of a table when it is handed to the caller.
Snapshot(t, ls, ro) ==
  [columns |-> t.columns, rows |-> RowsOf(t, ls, ro),
   primary_key |-> t.primary_key]

\* The references of n row objects allocated after those of ro.
NewRefs(ro, n) == [i \in 1..n |-> Len(ro) + i]

\* What is recorded of the last call: the operation, its operands (tables
\* by number) and arguments, how it ended (outcome, and res, the number of
\* the table returned) and, for join, the join columns it resolved.
Op(name, self, other, arg) ==
  [op |-> name, outcome |-> "none", res |-> 0, self |-> self,
   other |-> other, arg |-> arg, cols |-> <<>>]

NoOp == Op("none", 0, 0, <<>>)

\* The call ends by raising: no table is returned; what callbacks wrote
\* into existing rows stays written, what was allocated is garbage.
Raise(info, ro) ==
  /\ tables' = tables
  /\ made' = made
  /\ lists' = lists
  /\ rowobjs' = SubSeq(ro, 1, Len(rowobjs))
  /\ last' = [info EXCEPT !.outcome = "raised"]
  /\ calls' = calls + 1

\* The call ends by returning a value that is not a table.
ReturnValue(info, what) ==
  /\ UNCHANGED <<tables, made, lists, rowobjs>>
  /\ last' = [info EXCEPT !.outcome = what]
  /\ calls' = calls + 1

\* The call ends by returning the table t, on the heap ls, ro.
Return(info, t, ls, ro) ==
  /\ tables' = Append(tables, t)
  /\ made' = Append(made, Snapshot(t, ls, ro))
  /\ lists' = ls
  /\ rowobjs' = ro
  /\ last' = [info EXCEPT !.outcome = "table", !.res = Len(tables) + 1]
  /\ calls' = calls + 1

\* The call ends with "return Table(obj)" on the heap ls, ro.
ReturnTable(info, obj, ls, ro) ==
  LET r == TableInit(obj, ls, ro)
  IN IF r.ok THEN Return(info, r.t, ls, ro) ELSE Raise(info, ro)

(***************************************************************************)
(* The descriptions a caller constructs tables from.                       *)
(***************************************************************************)
CellValues == {IntV(n) : n \in 0..MaxVal}

Schemas == {<<"a", "b">>, <<"B", "c">>}

\* A row of the input: a list of values, or something that is not a list.
InputRow(vals) == [isList |-> TRUE, vals |-> vals]

NotAList == [isList |-> FALSE, vals |-> <<>>]

GoodRows == {InputRow(<<x, y>>) : x, y \in CellValues}

SeqsUpTo(S, n) == UNION {[1..k -> S] : k \in 0..n}

GoodInputs == SeqsUpTo(GoodRows, MaxRows)

\* Inputs with an empty row, a row of the wrong length or a row that is not
\* a list.
BadInputs ==
  {<<InputRow(<<>>)>>,
   <<InputRow(<<IntV(0)>>)>>,
   <<NotAList>>,
   <<InputRow(<<IntV(0), IntV(1)>>), InputRow(<<IntV(1)>>)>>,
   <<InputRow(<<IntV(0), IntV(1)>>), InputRow(<<IntV(1), IntV(0), IntV(1)>>)>>,
   <<InputRow(<<IntV(0), IntV(1)>>), NotAList>>}

Description(hasColumns, columns, rws, pk) ==
  [hasColumns |-> hasColumns, columnsIsList |-> TRUE, columns |-> columns,
   rows |-> rws, primary_key |-> pk, name |-> None, kind |-> None]

Descriptions ==
  UNION {{Description(TRUE, cs, rs, pk) :
            rs \in GoodInputs,
            pk \in {None} \cup {Lower(cs[j]) : j \in 1..Len(cs)}} :
         cs \in Schemas}
  \cup {Description(TRUE, <<"B", "c">>, <<>>, "a")}
  \cup {Description(FALSE, <<>>, rs, None) : rs \in GoodInputs \cup BadInputs}
  \cup {Description(TRUE, <<"a", "b">>, rs, None) : rs \in BadInputs}
  \cup {[Description(TRUE, <<>>, <<>>, None) EXCEPT !.columnsIsList = FALSE]}

Init ==
  /\ tables = <<>>
  /\ lists = <<>>
  /\ rowobjs = <<>>
  /\ made = <<>>
  /\ last = NoOp
  /\ calls = 0

\* Table(d) on a description d of the caller: the rows of d become heap
\* objects, and __init__ keeps the list of rows it is given.
ConstructAs(info, d) ==
  LET n == Len(d.rows)
      refs == [i \in 1..n |-> IF d.rows[i].isList THEN Len(rowobjs) + i ELSE 0]
      ro == rowobjs \o [i \in 1..n |-> d.rows[i].vals]
      ls == Append(lists, refs)
      obj == [d EXCEPT !.rows = Len(ls)]
  IN ReturnTable(info, obj, ls, ro)

Construct(d) == ConstructAs(Op("construct", 0, 0, <<d>>), d)

(***************************************************************************)
(* Row: a view of one row list.  Row(columns, values) keeps the row list   *)
(* itself (self.__values = values), so a Row of a table is the reference   *)
(* of the row.                                                             *)
(***************************************************************************)
\* Row.__getitem__ with an integer index.
RowGetItem(ro, ref, index) == ro[ref][index + 1]

\* Row.__setattr__ on a column name: the row list is written in place.
RowSetAttr(ro, ref, columns, attr, value) ==
  LET lookup == ColumnIndices(columns)
  IN IF Lower(attr) \in DOMAIN lookup
     THEN [ro EXCEPT ![ref][lookup[Lower(attr)] + 1] = value]
     ELSE ro

(***************************************************************************)
(* rename                                                                  *)
(***************************************************************************)
\* The renamings callers pass: dictionaries from column name to new name.
RenameMaps == {[B |-> "d"], [a |-> "b"]}

NewColumnNames(m) ==
  [lk \in {Lower(k) : k \in DOMAIN m} |->
     m[CHOOSE k \in DOMAIN m : Lower(k) = lk]]

Rename(i, m) ==
  LET t == tables[i]
      new_column_names == NewColumnNames(m)
      new_columns ==
        [j \in 1..Len(t.columns) |->
           IF Lower(t.columns[j]) \in DOMAIN new_column_names
           THEN new_column_names[Lower(t.columns[j])]
           ELSE t.columns[j]]
      new_primary_key ==
        IF t.primary_key = None THEN None
        ELSE IF Lower(t.primary_key) \in DOMAIN new_column_names
        THEN new_column_names[Lower(t.primary_key)]
        ELSE t.primary_key
      nd == Desc(new_columns, t.rows, new_primary_key, None)
  IN ReturnTable(Op("rename", i, 0, <<m>>), nd, lists, rowobjs)

\* Allocation: the rows news become new row objects, held by a new list.
Alloc(ls, ro, news) ==
  [ro |-> ro \o news, ls |-> Append(ls, NewRefs(ro, Len(news))),
   list |-> Len(ls) + 1]

\* A new list object holding the references refs.
AllocList(ls, refs) == [ls |-> Append(ls, refs), list |-> Len(ls) + 1]

(***************************************************************************)
(* restrict                                                                *)
(***************************************************************************)
\* The predicates callers pass: lambda x: x[0] == 1.
Predicates == {"first_is_1"}

CallPredicate(f, ro, ref) ==
  IF f = "first_is_1" THEN RowGetItem(ro, ref, 0) = IntV(1) ELSE TRUE

\* [x for x in refs if fn(Row(columns, x))]
RECURSIVE FilterRows(_, _, _)
FilterRows(f, ro, refs) ==
  IF refs = <<>> THEN <<>>
  ELSE (IF CallPredicate(f, ro, Head(refs)) THEN <<Head(refs)>> ELSE <<>>)
         \o FilterRows(f, ro, Tail(refs))

Restrict(i, f) ==
  LET t == tables[i]
      a == AllocList(lists, FilterRows(f, rowobjs, lists[t.rows]))
      d == Desc(t.columns, a.list, t.primary_key, None)
  IN ReturnTable(Op("restrict", i, 0, <<f>>), d, a.ls, rowobjs)

(***************************************************************************)
(* project                                                                 *)
(***************************************************************************)
\* str.strip() on the column names of the model.
Strip(s) == IF s = " b" THEN "b" ELSE s

ProjectArgs == {<<"b">>, <<"b", "a">>}

\* The body of project that hands the primary key on only when it is the
\* first of the requested columns.
ProjectOnKeyFirst(t, ls, ro, columns) ==
  LET new_columns == [j \in 1..Len(columns) |-> Strip(columns[j])]
      lower_columns == [j \in 1..Len(columns) |-> Lower(new_columns[j])]
      known == \A j \in 1..Len(columns) :
                 lower_columns[j] \in DOMAIN t.column_indices
      rws == ls[t.rows]
      new_rows ==
        [r \in 1..Len(rws) |->
           [j \in 1..Len(columns) |->
              ro[rws[r]][t.column_indices[lower_columns[j]] + 1]]]
      a == Alloc(ls, ro, new_rows)
      pk == IF t.primary_key # None /\ Len(columns) > 0
               /\ Lower(t.primary_key) = lower_columns[1]
            THEN t.primary_key ELSE None
  IN [known |-> known,
      d |-> IF known THEN Desc(new_columns, a.list, pk, None) ELSE <<>>,
      ls |-> IF known THEN a.ls ELSE ls,
      ro |-> IF known THEN a.ro ELSE ro]

\* The body of project on table t in the heap ls, ro: whether every
\* column is known (else KeyError), the description handed to Table(),
\* and the heap with the new rows.
ProjectOn(t, ls, ro, columns) ==
  LET new_columns == [j \in 1..Len(columns) |-> Strip(columns[j])]
      lower_columns == [j \in 1..Len(columns) |-> Lower(new_columns[j])]
      known == \A j \in 1..Len(columns) :
                 lower_columns[j] \in DOMAIN t.column_indices
      rws == ls[t.rows]
      new_rows ==
        [r \in 1..Len(rws) |->
           [j \in 1..Len(columns) |->
              ro[rws[r]][t.column_indices[lower_columns[j]] + 1]]]
      a == Alloc(ls, ro, new_rows)
      pk == IF t.primary_key # None
               /\ Lower(t.primary_key) \in RangeOf(lower_columns)
            THEN t.primary_key ELSE None
  IN [known |-> known,
      d |-> IF known THEN Desc(new_columns, a.list, pk, None) ELSE <<>>,
      ls |-> IF known THEN a.ls ELSE ls,
      ro |-> IF known THEN a.ro ELSE ro]

\* project handing the primary key on whatever the columns are.
ProjectKeepingKey(i, columns) ==
  LET p == ProjectOn(tables[i], lists, rowobjs, columns)
      info == Op("project", i, 0, <<columns>>)
  IN IF p.known
     THEN ReturnTable(info, [p.d EXCEPT !.primary_key = tables[i].primary_key],
                      p.ls, p.ro)
     ELSE Raise(info, rowobjs)

Project(i, columns) ==
  LET p == ProjectOn(tables[i], lists, rowobjs, columns)
      info == Op("project", i, 0, <<columns>>)
  IN IF p.known THEN ReturnTable(info, p.d, p.ls, p.ro)
     ELSE Raise(info, rowobjs)

(***************************************************************************)
(* distinct, limit                                                         *)
(***************************************************************************)
\* "r in rows": some element of the list refs has the content of row r.
RowIn(ro, r, refs) == \E k \in 1..Len(refs) : ro[refs[k]] = r

\* The loop of distinct: the rows of refs not yet in acc are appended.
\* The loop of distinct without the test "not r in new_rows".
RECURSIVE AppendEvery(_, _, _)
AppendEvery(ro, acc, refs) ==
  IF refs = <<>> THEN acc
  ELSE AppendEvery(ro, Append(acc, Head(refs)), Tail(refs))

RECURSIVE AppendNew(_, _, _)
AppendNew(ro, acc, refs) ==
  IF refs = <<>> THEN acc
  ELSE AppendNew(ro,
                 IF RowIn(ro, ro[Head(refs)], acc) THEN acc
                 ELSE Append(acc, Head(refs)),
                 Tail(refs))

Distinct(i) ==
  LET t == tables[i]
      a == AllocList(lists, AppendNew(rowobjs, <<>>, lists[t.rows]))
      d == Desc(t.columns, a.list, t.primary_key, None)
  IN ReturnTable(Op("distinct", i, 0, <<>>), d, a.ls, rowobjs)

\* The slice s[0:n] of a Python list.
Slice0(s, n) ==
  IF n >= 0 THEN SubSeq(s, 1, IF n < Len(s) THEN n ELSE Len(s))
  ELSE SubSeq(s, 1, Len(s) + n)

LimitArgs == {1, MaxRows + 1}

Limit(i, n) ==
  LET t == tables[i]
      a == AllocList(lists, Slice0(lists[t.rows], n))
      d == Desc(t.columns, a.list, None, t.name)
  IN ReturnTable(Op("limit", i, 0, <<n>>), d, a.ls, rowobjs)

(***************************************************************************)
(* union, intersect, minus                                                 *)
(***************************************************************************)
\* The loop of union over the rows of other: rows is the list being built.
\* The result is the list, or <<0>> when the loop raises (a row reference
\* is never 0 in a table).
RECURSIVE UnionLoop(_, _, _, _, _)
UnionLoop(t, ls, ro, rows, refs) ==
  IF refs = <<>> THEN rows
  ELSE LET r == Head(refs)
           key == PyStr(ro[r][t.pk_column_index + 1])
       IN IF t.primary_key # None
          THEN IF key \notin DOMAIN t.keys
               THEN UnionLoop(t, ls, ro, Append(rows, r), Tail(refs))
               ELSE IF ro[ls[t.rows][t.keys[key] + 1]] # ro[r]
               THEN <<0>>
               ELSE UnionLoop(t, ls, ro, rows, Tail(refs))
          ELSE IF ~RowIn(ro, ro[r], rows)
               THEN UnionLoop(t, ls, ro, Append(rows, r), Tail(refs))
               ELSE UnionLoop(t, ls, ro, rows, Tail(refs))

Union(i, j) ==
  LET t == tables[i]
      other == tables[j]
      rows == UnionLoop(t, lists, rowobjs, lists[t.rows], lists[other.rows])
      a == AllocList(lists, rows)
      d == Desc(t.columns, a.list, t.primary_key, None)
      info == Op("union", i, j, <<>>)
  IN IF t.columns # other.columns THEN ReturnValue(info, "ValueError")
     ELSE IF rows = <<0>> THEN Raise(info, rowobjs)
     ELSE ReturnTable(info, d, a.ls, rowobjs)

\* The rows of refs that are (want) or are not (~want) in the list others.
RECURSIVE SelectRows(_, _, _, _)
SelectRows(ro, refs, others, want) ==
  IF refs = <<>> THEN <<>>
  ELSE (IF RowIn(ro, ro[Head(refs)], others) = want
        THEN <<Head(refs)>> ELSE <<>>)
         \o SelectRows(ro, Tail(refs), others, want)

\* intersect keeping every row of self.
IntersectAll(i, j) ==
  LET t == tables[i]
      other == tables[j]
      a == AllocList(lists, lists[t.rows])
      d == Desc(t.columns, a.list, t.primary_key, None)
      info == Op("intersect", i, j, <<>>)
  IN IF t.columns # other.columns THEN ReturnValue(info, "ValueError")
     ELSE ReturnTable(info, d, a.ls, rowobjs)

Intersect(i, j) ==
  LET t == tables[i]
      other == tables[j]
      rows == SelectRows(rowobjs, lists[t.rows], lists[other.rows], TRUE)
      a == AllocList(lists, rows)
      d == Desc(t.columns, a.list, t.primary_key, None)
      info == Op("intersect", i, j, <<>>)
  IN IF t.columns # other.columns THEN ReturnValue(info, "ValueError")
     ELSE ReturnTable(info, d, a.ls, rowobjs)

\* minus keeping the rows of self that are in other.
MinusCommon(i, j) ==
  LET t == tables[i]
      other == tables[j]
      rows == SelectRows(rowobjs, lists[t.rows], lists[other.rows], TRUE)
      a == AllocList(lists, rows)
      d == Desc(t.columns, a.list, t.primary_key, None)
      info == Op("minus", i, j, <<>>)
  IN IF t.columns # other.columns THEN ReturnValue(info, "ValueError")
     ELSE ReturnTable(info, d, a.ls, rowobjs)

Minus(i, j) ==
  LET t == tables[i]
      other == tables[j]
      rows == SelectRows(rowobjs, lists[t.rows], lists[other.rows], FALSE)
      a == AllocList(lists, rows)
      d == Desc(t.columns, a.list, t.primary_key, None)
      info == Op("minus", i, j, <<>>)
  IN IF t.columns # other.columns THEN ReturnValue(info, "ValueError")
     ELSE ReturnTable(info, d, a.ls, rowobjs)

(***************************************************************************)
(* __eq__                                                                  *)
(***************************************************************************)
\* Table.__eq__: the same columns, as many rows, and every row of self
\* "in" the rows of other.
TableEq(t, other, ls, ro) ==
  /\ t.columns = other.columns
  /\ Len(ls[t.rows]) = Len(ls[other.rows])
  /\ \A k \in 1..Len(ls[t.rows]) : RowIn(ro, ro[ls[t.rows][k]], ls[other.rows])

\* tables[i] == tables[j]
Eq(i, j) ==
  ReturnValue(Op("eq", i, j, <<>>),
              IF TableEq(tables[i], tables[j], lists, rowobjs)
              THEN "True" ELSE "False")

(***************************************************************************)
(* update, extend                                                          *)
(***************************************************************************)
\* The functions callers pass to update.  "assign" is
\*   def fn(r): r.<last column> = r[0]; return r
\* and "fresh" returns a new Row over the same columns with that value,
\* leaving the Row it was given alone.
UpdateFns == {"assign", "fresh"}

\* The call fn(row): the heap after it, and the values of the Row returned.
CallUpdateFn(f, ro, ref, columns) ==
  LET last_column == columns[Len(columns)]
      written == RowSetAttr(ro, ref, columns, last_column,
                            RowGetItem(ro, ref, 0))
  IN IF f = "assign" THEN [ro |-> written, values |-> written[ref]]
     ELSE [ro |-> ro, values |-> written[ref]]

\* The loop of update: fn is called on the Row of every row in turn, and
\* row.values(), the row list itself, is appended.
RECURSIVE UpdateLoop(_, _, _, _)
UpdateLoop(f, ro, refs, columns) ==
  IF refs = <<>> THEN ro
  ELSE UpdateLoop(f, CallUpdateFn(f, ro, Head(refs), columns).ro,
                  Tail(refs), columns)

Update(i, f) ==
  LET t == tables[i]
      ro == UpdateLoop(f, rowobjs, lists[t.rows], t.columns)
      a == AllocList(lists, lists[t.rows])
      d == Desc(t.columns, a.list, t.primary_key, None)
      info == Op("update", i, 0, <<f>>)
  IN ReturnTable(info, d, a.ls, ro)

\* The functions callers pass to extend: lambda x: Row({"d": x[0]}).
ExtendFns == {"d_is_first"}

CallExtendFn(f, ro, ref) ==
  [columns |-> <<"d">>, values |-> <<RowGetItem(ro, ref, 0)>>]

Extend(i, f) ==
  LET t == tables[i]
      rws == lists[t.rows]
      ext_col_names == CallExtendFn(f, rowobjs, rws[1]).columns
      new_rows ==
        [r \in 1..Len(rws) |->
           rowobjs[rws[r]] \o CallExtendFn(f, rowobjs, rws[r]).values]
      a == Alloc(lists, rowobjs, new_rows)
      d == Desc(t.columns \o ext_col_names, a.list, t.primary_key, None)
      info == Op("extend", i, 0, <<f>>)
  IN IF Len(rws) = 0 THEN Raise(info, rowobjs)
     ELSE ReturnTable(info, d, a.ls, a.ro)

(***************************************************************************)
(* summarize with no aggregator                                            *)
(***************************************************************************)
SummarizeArgs == {<<>>, <<"b">>}

\* The orders in which a dictionary with the keys of K may be iterated.
IterationOrders(K) ==
  {o \in [1..Cardinality(K) -> K] :
     \A x, y \in 1..Cardinality(K) : o[x] = o[y] => x = y}

Summarize(i, per_column_names) ==
  LET t == tables[i]
      rws == lists[t.rows]
      per_columns ==
        [j \in 1..Len(per_column_names) |-> Strip(per_column_names[j])]
      per_lower_columns ==
        [j \in 1..Len(per_columns) |-> Lower(per_columns[j])]
      known == \A j \in 1..Len(per_columns) :
                 per_lower_columns[j] \in DOMAIN t.column_indices
      per_key(r) ==
        [j \in 1..Len(per_columns) |->
           rowobjs[rws[r]][t.column_indices[per_lower_columns[j]] + 1]]
      agg == [k \in {per_key(r) : r \in 1..Len(rws)} |->
                Cardinality({r \in 1..Len(rws) : per_key(r) = k})]
      info == Op("summarize", i, 0, <<per_column_names>>)
  IN IF Len(rws) = 0 THEN Raise(info, rowobjs)
     ELSE IF ~known THEN Raise(info, rowobjs)
     ELSE \E o \in IterationOrders(DOMAIN agg) :
            LET new_rows ==
                  [g \in 1..Len(o) |-> o[g] \o <<IntV(agg[o[g]])>>]
                a == Alloc(lists, rowobjs, new_rows)
                d == Desc(per_columns \o <<"count">>, a.list, None, None)
            IN ReturnTable(info, d, a.ls, a.ro)

(***************************************************************************)
(* orderBy                                                                 *)
(***************************************************************************)
\* cmp(a, b) of Python 2 on cell values: None is smaller than every
\* number, numbers are smaller than strings, strings compare by characters
\* (a digit is smaller than "N").
TypeRank(v) ==
  CASE v[1] = "null" -> 0
    [] v[1] = "int" -> 1
    [] v[1] = "str" -> 2
    [] OTHER -> 3

Cmp(a, b) ==
  IF TypeRank(a) # TypeRank(b)
  THEN (IF TypeRank(a) < TypeRank(b) THEN -1 ELSE 1)
  ELSE IF a[2] < b[2] THEN -1 ELSE IF a[2] > b[2] THEN 1 ELSE 0

\* A column of an orderBy list: c[0] == "-" and the name that follows.
Descending(c) == c \in {"-a", "-b", "-c"}

ColumnOf(c) ==
  CASE c = "-a" -> "a" [] c = "-b" -> "b" [] c = "-c" -> "c" [] OTHER -> c

\* fn_aux(a, b, indices): index k + 1 ascending, -(k + 1) descending.
RECURSIVE fn_aux(_, _, _)
fn_aux(a, b, indices) ==
  IF indices = <<>> THEN 0
  ELSE LET idx0 == Head(indices)
           asc == IF idx0 < 0 THEN -1 ELSE 1
           idx == IF idx0 < 0 THEN -idx0 ELSE idx0
           result == asc * Cmp(a[idx], b[idx])
       IN IF result = 0 THEN fn_aux(a, b, Tail(indices)) ELSE result

\* list.sort(fn), a stable sort: x goes behind the elements not above it.
\* An insertion that puts x in front of the elements it compares equal to.
InsertSortedInFront(ro, sorted, x, indices) ==
  LET n == Cardinality({k \in 1..Len(sorted) :
                          fn_aux(ro[sorted[k]], ro[x], indices) < 0})
  IN SubSeq(sorted, 1, n) \o <<x>> \o SubSeq(sorted, n + 1, Len(sorted))

InsertSorted(ro, sorted, x, indices) ==
  LET n == Cardinality({k \in 1..Len(sorted) :
                          fn_aux(ro[sorted[k]], ro[x], indices) <= 0})
  IN SubSeq(sorted, 1, n) \o <<x>> \o SubSeq(sorted, n + 1, Len(sorted))

RECURSIVE ListSort(_, _, _, _)
ListSort(ro, sorted, refs, indices) ==
  IF refs = <<>> THEN sorted
  ELSE ListSort(ro, InsertSorted(ro, sorted, Head(refs), indices),
                Tail(refs), indices)

OrderByArgs == {<<"b">>, <<"-b", "a">>}

OrderBy(i, columns) ==
  LET t == tables[i]
      r == TableInit(Desc(t.columns, t.rows, None, None), lists, rowobjs).t
      cs == [j \in 1..Len(columns) |-> Lower(Strip(columns[j]))]
      known == \A j \in 1..Len(cs) :
                 ColumnOf(cs[j]) \in DOMAIN r.column_indices
      colindices ==
        [j \in 1..Len(cs) |->
           IF Descending(cs[j])
           THEN -1 * (r.column_indices[ColumnOf(cs[j])] + 1)
           ELSE r.column_indices[cs[j]] + 1]
      sorted == ListSort(rowobjs, <<>>, lists[r.rows], colindices)
      ls == [lists EXCEPT ![r.rows] = sorted]
      info == Op("orderBy", i, 0, <<columns>>)
  IN IF known THEN Return(info, r, ls, rowobjs) ELSE Raise(info, rowobjs)

(***************************************************************************)
(* row lookup                                                              *)
(***************************************************************************)
\* Table.rowByIndex: self.__rows[index], a negative index counting from
\* the end; ref 0 stands for IndexError.
RowByIndex(t, ls, index) ==
  LET rws == ls[t.rows]
  IN IF 0 <= index /\ index < Len(rws) THEN rws[index + 1]
     ELSE IF index < 0 /\ -index <= Len(rws) THEN rws[Len(rws) + index + 1]
     ELSE 0

\* Table.rowByKey: self.__rows[self.__keys[str(key)]]; ref 0 stands for
\* KeyError.
RowByKey(t, ls, key) ==
  IF PyStr(key) \in DOMAIN t.keys
  THEN ls[t.rows][t.keys[PyStr(key)] + 1]
  ELSE 0

\* Table.row: the id'th row when id is an integer that is no key.
Row(t, ls, id) ==
  IF id[1] = "int" /\ PyStr(id) \notin DOMAIN t.keys
  THEN RowByIndex(t, ls, id[2])
  ELSE RowByKey(t, ls, id)

\* The ids callers look rows up by: integers from -1 to MaxRows, and the
\* string "1".
RowIds == {IntV(n) : n \in (0 - 1)..MaxRows} \cup {StrV(1)}

\* The call ends by returning the Row of the row list ref.
ReturnRow(info, ref) ==
  /\ UNCHANGED <<tables, made, lists>>
  /\ last' = [info EXCEPT !.outcome = "row", !.res = ref]
  /\ calls' = calls + 1

\* table[id], which is table.row(id).
GetItem(i, id) ==
  LET ref == Row(tables[i], lists, id)
      info == Op("row", i, 0, <<id>>)
  IN IF ref = 0 THEN Raise(info, rowobjs)
     ELSE ReturnRow(info, ref) /\ rowobjs' = rowobjs

\* The column names callers assign to on a Row.
RowAttrs == {"b", "A"}

\* r = table[id]; r.attr = value
SetAttr(i, id, attr, value) ==
  LET t == tables[i]
      ref == Row(t, lists, id)
      info == Op("setattr", i, 0, <<id, attr, value>>)
  IN IF ref = 0 THEN Raise(info, rowobjs)
     ELSE /\ ReturnRow(info, ref)
          /\ rowobjs' = RowSetAttr(rowobjs, ref, t.columns, attr, value)

(***************************************************************************)
(* join                                                                    *)
(***************************************************************************)
\* Merge two lists, leaving out orow[other_idx].
RECURSIVE MergeTail(_, _, _)
MergeTail(orow, k, other_idx) ==
  IF k > Len(orow) THEN <<>>
  ELSE (IF k - 1 = other_idx THEN <<>> ELSE <<orow[k]>>)
         \o MergeTail(orow, k + 1, other_idx)

\* Merging without leaving out orow[other_idx].
merge_rows_whole(srow, orow, other_idx) == srow \o orow

merge_rows(srow, orow, other_idx) == srow \o MergeTail(orow, 1, other_idx)

\* The rows join appends for the row srow of self.
RECURSIVE NestedLoop(_, _, _, _, _)
NestedLoop(srow, self_idx, ro, orefs, other_idx) ==
  IF orefs = <<>> THEN <<>>
  ELSE (IF srow[self_idx + 1] = ro[Head(orefs)][other_idx + 1]
        THEN <<merge_rows(srow, ro[Head(orefs)], other_idx)>> ELSE <<>>)
         \o NestedLoop(srow, self_idx, ro, Tail(orefs), other_idx)

JoinRow(srow, self_idx, other, ls, ro, other_idx, pk_join, outer_join) ==
  LET null_row == [k \in 1..Len(other.columns) |-> Null]
      padded == IF outer_join
                THEN <<merge_rows(srow, null_row, other_idx)>> ELSE <<>>
      oref == Row(other, ls, srow[self_idx + 1])
      found == NestedLoop(srow, self_idx, ro, ls[other.rows], other_idx)
  IN IF pk_join
     THEN IF oref # 0 THEN <<merge_rows(srow, ro[oref], other_idx)>>
          ELSE padded
     ELSE IF found # <<>> THEN found ELSE padded

RECURSIVE JoinRows(_, _, _, _, _, _, _, _)
JoinRows(srefs, self_idx, other, ls, ro, other_idx, pk_join, outer_join) ==
  IF srefs = <<>> THEN <<>>
  ELSE JoinRow(ro[Head(srefs)], self_idx, other, ls, ro, other_idx,
               pk_join, outer_join)
         \o JoinRows(Tail(srefs), self_idx, other, ls, ro, other_idx,
                     pk_join, outer_join)

\* The join columns callers pass: (self_col, other_col), None when absent.
JoinArgs == {<<None, None>>, <<"b", None>>, <<"a", "B">>}

\* The resolution of the join columns: <<self_col, other_col>>, or <<>>
\* when join raises ValueError.
\* The resolution that joins on a common column whenever there is one.
JoinColumnsAny(t, other, self_col, other_col) ==
  LET join_col_set == DOMAIN t.column_indices \cap DOMAIN other.column_indices
  IN IF self_col # None
     THEN <<self_col, IF other_col = None THEN self_col ELSE other_col>>
     ELSE IF Cardinality(join_col_set) >= 1
     THEN LET c == CHOOSE c \in join_col_set : TRUE IN <<c, c>>
     ELSE <<>>

JoinColumns(t, other, self_col, other_col) ==
  LET join_col_set == DOMAIN t.column_indices \cap DOMAIN other.column_indices
  IN IF self_col # None
     THEN <<self_col, IF other_col = None THEN self_col ELSE other_col>>
     ELSE IF Cardinality(join_col_set) = 1
     THEN LET c == CHOOSE c \in join_col_set : TRUE IN <<c, c>>
     ELSE <<>>

Join(i, j, outer_join, self_col, other_col) ==
  LET t == tables[i]
      other == tables[j]
      cols == JoinColumns(t, other, self_col, other_col)
      pk_join == /\ other.primary_key # None
                 /\ Lower(cols[2]) = Lower(other.primary_key)
      known == /\ Lower(cols[1]) \in DOMAIN t.column_indices
               /\ Lower(cols[2]) \in DOMAIN other.column_indices
      self_idx == t.column_indices[Lower(cols[1])]
      other_idx == other.column_indices[Lower(cols[2])]
      new_columns == merge_rows(t.columns, other.columns, other_idx)
      new_rows == JoinRows(lists[t.rows], self_idx, other, lists, rowobjs,
                           other_idx, pk_join, outer_join)
      a == Alloc(lists, rowobjs, new_rows)
      d == Desc(new_columns, a.list, None, None)
      info == [Op("join", i, j, <<outer_join, self_col, other_col>>)
                 EXCEPT !.cols = cols]
  IN IF cols = <<>> THEN Raise(info, rowobjs)
     ELSE IF ~known THEN Raise(info, rowobjs)
     ELSE ReturnTable(info, d, a.ls, a.ro)

(***************************************************************************)
(* A session: one table is constructed and the operators are applied to    *)
(* it and to the tables they return.                                       *)
(***************************************************************************)
\* At most MaxCalls calls are made.
(***************************************************************************)
(* _dumps, and the construction of a table from the text it returns.  The  *)
(* text is modelled by the JSON object it spells: the members _dumps       *)
(* writes, with every cell as a JSON token.                                *)
(***************************************************************************)
\* json.dumps of a cell: a number, null, or a string.
JsonDumps(v) ==
  CASE v[1] = "int" -> <<"number", v[2]>>
    [] v[1] = "null" -> <<"null", 0>>
    [] OTHER -> <<"string", v>>

\* json.loads of a token; a string comes back as a unicode string, which
\* is equal to the str it was written from and has the same str().
JsonLoads(j) ==
  CASE j[1] = "number" -> IntV(j[2])
    [] j[1] = "null" -> Null
    [] OTHER -> j[2]

\* "if x:" on an optional text field: None and the empty string are false.
Truthy(x) == x # None /\ x # ""

\* The members that are always written.
DumpsAlways(t, ls, ro) ==
  [kind |-> "table",
   version |-> t.version,
   columns |-> t.columns,
   rows |-> [k \in 1..Len(ls[t.rows]) |->
               [c \in 1..Len(ro[ls[t.rows][k]]) |->
                  JsonDumps(ro[ls[t.rows][k]][c])]]]

\* Table._dumps(True): name, comment and primary key are written only when
\* they are true.
Dumps(t, ls, ro) ==
  DumpsAlways(t, ls, ro)
    @@ (IF Truthy(t.name) THEN [name |-> t.name] ELSE <<>>)
    @@ (IF Truthy(t.comment) THEN [comment |-> t.comment] ELSE <<>>)
    @@ (IF Truthy(t.primary_key) THEN [primary_key |-> t.primary_key]
        ELSE <<>>)

\* json.loads(text): the description dictionary Table.__init__ goes on with.
Loads(text) ==
  [hasColumns |-> TRUE, columnsIsList |-> TRUE,
   columns |-> text.columns,
   rows |-> [k \in 1..Len(text.rows) |->
               InputRow([c \in 1..Len(text.rows[k]) |->
                           JsonLoads(text.rows[k][c])])],
   primary_key |-> FieldOr(text, "primary_key", None),
   name |-> FieldOr(text, "name", None),
   kind |-> text.kind,
   version |-> text.version]
    @@ (IF "comment" \in DOMAIN text THEN [comment |-> text.comment]
        ELSE <<>>)

\* Table(str(tables[i]))
Reload(i) ==
  LET text == Dumps(tables[i], lists, rowobjs)
  IN ConstructAs(Op("reload", i, 0, <<text>>), Loads(text))

More == calls < MaxCalls

Next ==
  \/ /\ More /\ Len(tables) < MaxInputs
     /\ \E d \in Descriptions : Construct(d)
  \/ More /\ \E i \in 1..Len(tables), m \in RenameMaps : Rename(i, m)
  \/ More /\ \E i \in 1..Len(tables), f \in Predicates : Restrict(i, f)
  \/ More /\ \E i \in 1..Len(tables), cs \in ProjectArgs : Project(i, cs)
  \/ More /\ \E i \in 1..Len(tables) : Distinct(i)
  \/ More /\ \E i \in 1..Len(tables), n \in LimitArgs : Limit(i, n)
  \/ More /\ \E i, j \in 1..Len(tables) : Union(i, j)
  \/ More /\ \E i, j \in 1..Len(tables) : Intersect(i, j)
  \/ More /\ \E i, j \in 1..Len(tables) : Minus(i, j)
  \/ More /\ \E i, j \in 1..Len(tables) : Eq(i, j)
  \/ More /\ \E i \in 1..Len(tables), f \in UpdateFns : Update(i, f)
  \/ More /\ \E i \in 1..Len(tables), f \in ExtendFns : Extend(i, f)
  \/ More /\ \E i \in 1..Len(tables), cs \in SummarizeArgs : Summarize(i, cs)
  \/ More /\ \E i \in 1..Len(tables), cs \in OrderByArgs : OrderBy(i, cs)
  \/ /\ More
     /\ \E i, j \in 1..Len(tables), o \in BOOLEAN, c \in JoinArgs :
          Join(i, j, o, c[1], c[2])

Spec == Init /\ [][Next]_vars

(***************************************************************************)
(* A session of the binary operators: the two operands are constructed,    *)
(* and an operator is applied to the first table as self and the latest    *)
(* table as other.                                                         *)
(***************************************************************************)
Operands == {"self", "other"}

NextPair ==
  \/ /\ More /\ Len(tables) < Cardinality(Operands)
     /\ \E d \in Descriptions : Construct(d)
  \/ More /\ Len(tables) > 0 /\ Union(1, Len(tables))
  \/ More /\ Len(tables) > 0 /\ Intersect(1, Len(tables))
  \/ More /\ Len(tables) > 0 /\ Minus(1, Len(tables))
  \/ More /\ Len(tables) > 0 /\ Eq(1, Len(tables))
  \/ /\ More /\ Len(tables) > 0
     /\ \E o \in BOOLEAN, c \in JoinArgs : Join(1, Len(tables), o, c[1], c[2])

SpecPair == Init /\ [][NextPair]_vars

(***************************************************************************)
(* A session of the operators that regroup or reorder rows, on one table   *)
(* of up to MaxLongRows rows.                                              *)
(***************************************************************************)
MaxLongRows == 3

LongDescriptions ==
  {Description(TRUE, <<"a", "b">>, rs, pk) :
     rs \in SeqsUpTo(GoodRows, MaxLongRows), pk \in {None, "a"}}

NextRows ==
  \/ /\ More /\ Len(tables) < MaxInputs
     /\ \E d \in LongDescriptions : Construct(d)
  \/ More /\ \E i \in 1..Len(tables) : Distinct(i)
  \/ More /\ \E i \in 1..Len(tables), cs \in OrderByArgs : OrderBy(i, cs)
  \/ More /\ \E i \in 1..Len(tables), cs \in SummarizeArgs : Summarize(i, cs)
  \/ More /\ \E i, j \in 1..Len(tables) : Eq(i, j)

SpecRows == Init /\ [][NextRows]_vars

(***************************************************************************)
(* A session of row lookups: a table is constructed, reordered or updated, *)
(* and the caller looks rows up and assigns to their columns.              *)
(***************************************************************************)
NextLookup ==
  \/ /\ More /\ Len(tables) < MaxInputs
     /\ \E d \in Descriptions : Construct(d)
  \/ More /\ \E i \in 1..Len(tables), cs \in OrderByArgs : OrderBy(i, cs)
  \/ More /\ \E i \in 1..Len(tables), f \in UpdateFns : Update(i, f)
  \/ More /\ \E i \in 1..Len(tables), id \in RowIds : GetItem(i, id)
  \/ /\ More
     /\ \E i \in 1..Len(tables), id \in RowIds, attr \in RowAttrs,
           value \in CellValues : SetAttr(i, id, attr, value)

SpecLookup == Init /\ [][NextLookup]_vars

(***************************************************************************)
(* A session of serialization: a table is constructed from a description   *)
(* with a name, a comment and a version, and tables are built again from   *)
(* their text.                                                             *)
(***************************************************************************)
TextFields == {None, "", "t"}

Versions == {1, 2}

DumpRows == {InputRow(<<IntV(0), StrV(1)>>), InputRow(<<Null, StrNone>>)}

\* Descriptions with columns or without, with or without a primary key,
\* name, comment and version.
DumpDescriptions ==
  LET plain ==
        {[Description(hc, IF hc THEN <<"a", "b">> ELSE <<>>, rs, pk)
            EXCEPT !.name = n] :
           hc \in BOOLEAN, rs \in SeqsUpTo(DumpRows, MaxRows),
           pk \in {None, "a"}, n \in TextFields}
      commented ==
        plain \cup {d @@ [comment |-> c] : d \in plain, c \in TextFields}
  IN commented \cup {d @@ [version |-> v] : d \in commented, v \in Versions}

NextDumps ==
  \/ /\ More /\ Len(tables) < MaxInputs
     /\ \E d \in DumpDescriptions : Construct(d)
  \/ More /\ \E i \in 1..Len(tables) : Reload(i)

SpecDumps == Init /\ [][NextDumps]_vars

(***************************************************************************)
(* Properties.                                                             *)
(***************************************************************************)
\* The rows of table number i as they are now.
RowsNow(i) == RowsOf(tables[i], lists, rowobjs)

\* C1: every operator leaves its input tables unchanged: the columns, the
\* rows (content and order) and the primary key of every table are what
\* they were when the table was handed to the caller.
OperatorsLeaveInputsUnchanged ==
  \A i \in 1..Len(tables) : Snapshot(tables[i], lists, rowobjs) = made[i]

\* C2: in every table with a primary key that construction or an operator
\* returns, no two rows have the same value in the primary-key column.
PrimaryKeyValuesUnique ==
  \A i \in 1..Len(tables) :
    tables[i].primary_key # None =>
      \A x, y \in 1..Len(made[i].rows) :
        x # y => made[i].rows[x][tables[i].pk_column_index + 1]
                   # made[i].rows[y][tables[i].pk_column_index + 1]

\* Two rows of the description d have the same value in the primary-key
\* column and different content.
KeyClash(d) ==
  /\ d.hasColumns
  /\ d.primary_key # None
  /\ \E j \in 1..Len(d.columns) :
       /\ Lower(d.columns[j]) = Lower(d.primary_key)
       /\ \E x, y \in 1..Len(d.rows) :
            /\ d.rows[x].isList /\ d.rows[y].isList
            /\ Len(d.rows[x].vals) = Len(d.columns)
            /\ Len(d.rows[y].vals) = Len(d.columns)
            /\ d.rows[x].vals[j] = d.rows[y].vals[j]
            /\ d.rows[x].vals # d.rows[y].vals

\* C3: construction with a primary key fails, producing no table, when two
\* of the given rows have the same key value and different content.
ConstructionRejectsKeyClash ==
  (last.op = "construct" /\ KeyClash(last.arg[1])) => last.outcome = "raised"

\* The description d has columns, given or synthesized from its first row,
\* and a row that is not a list or whose length is not the column count.
HasBadRow(d) ==
  LET known == d.hasColumns \/ (Len(d.rows) > 0 /\ d.rows[1].isList)
      count == IF d.hasColumns THEN Len(d.columns) ELSE Len(d.rows[1].vals)
  IN /\ known
     /\ \E x \in 1..Len(d.rows) :
          ~d.rows[x].isList \/ Len(d.rows[x].vals) # count

\* C4: every table has all its rows of length len(columns), and
\* construction given a row of another length, or a row that is not a
\* list, fails instead of producing a table.
RowsHaveColumnCount ==
  /\ \A i \in 1..Len(tables) :
       \A k \in 1..Len(lists[tables[i].rows]) :
         /\ lists[tables[i].rows][k] # 0
         /\ Len(rowobjs[lists[tables[i].rows][k]]) = Len(tables[i].columns)
  /\ (last.op = "construct" /\ HasBadRow(last.arg[1]))
       => (last.outcome = "raised" /\ last.res = 0)

\* A construction given a bad row has raised.
BadRowRejected ==
  /\ last.op = "construct"
  /\ HasBadRow(last.arg[1])
  /\ last.outcome = "raised"
  /\ Len(tables) = 0

(***************************************************************************)
(* Properties of join and union, stated on the call made last.             *)
(***************************************************************************)
\* The 0-based index of the column named c in table t.
IndexOfColumn(t, c) ==
  (CHOOSE j \in 1..Len(t.columns) : Lower(t.columns[j]) = Lower(c)) - 1

\* The row s followed by the row o without its value at index oi.
Merged(s, o, oi) == s \o SubSeq(o, 1, oi) \o SubSeq(o, oi + 2, Len(o))

\* The pairs <<x, y>> with x in 1..n and y in 1..m, ordered by x then y.
PairsInOrder(n, m) ==
  [k \in 1..(n * m) |-> <<((k - 1) \div m) + 1, ((k - 1) % m) + 1>>]

\* One merged row for each pair of a row of srows and a row of orows with
\* equal join values, ordered by the row of srows, then the row of orows.
MatchingPairs(srows, orows, si, oi) ==
  LET Matches(p) == srows[p[1]][si + 1] = orows[p[2]][oi + 1]
      pairs == SelectSeq(PairsInOrder(Len(srows), Len(orows)), Matches)
  IN [k \in 1..Len(pairs) |->
        Merged(srows[pairs[k][1]], orows[pairs[k][2]], oi)]

\* The row s has a row of orows with an equal join value.
HasMatch(s, orows, si, oi) ==
  \E y \in 1..Len(orows) : s[si + 1] = orows[y][oi + 1]

\* The number of times the row r occurs in rws.
CountIn(rws, r) == Cardinality({k \in 1..Len(rws) : rws[k] = r})

\* rws and others hold the same rows the same number of times.
SameRows(rws, others) ==
  /\ Len(rws) = Len(others)
  /\ \A r \in RangeOf(rws) \cup RangeOf(others) :
       CountIn(rws, r) = CountIn(others, r)

\* The call made last is a join that returned a table.
Joined == last.op = "join" /\ last.outcome = "table"

JoinSelfIdx == IndexOfColumn(tables[last.self], last.cols[1])

JoinOtherIdx == IndexOfColumn(tables[last.other], last.cols[2])

\* C5: an inner join returns exactly one merged row for each pair of a row
\* of self and a row of other with equal join values, ordered by the row
\* of self, then the row of other, whichever strategy join selects.
InnerJoinIsAllMatchingPairs ==
  (Joined /\ ~last.arg[1]) =>
    RowsNow(last.res) = MatchingPairs(RowsNow(last.self), RowsNow(last.other),
                                      JoinSelfIdx, JoinOtherIdx)

\* The rows an outer join is to return: the rows of the inner join and one
\* null-padded row for each row of self without a match.
OuterRows(srows, orows, si, oi, width) ==
  LET nulls == [k \in 1..width |-> Null]
      Unmatched(s) == ~HasMatch(s, orows, si, oi)
      lonely == SelectSeq(srows, Unmatched)
  IN MatchingPairs(srows, orows, si, oi)
       \o [k \in 1..Len(lonely) |-> Merged(lonely[k], nulls, oi)]

\* C6: an outer join returns the rows of the inner join and exactly one
\* null-padded row for each row of self that has no match, and no
\* null-padded row for a row of self that has one.
OuterJoinPadsUnmatchedRows ==
  (Joined /\ last.arg[1]) =>
    SameRows(RowsNow(last.res),
             OuterRows(RowsNow(last.self), RowsNow(last.other),
                       JoinSelfIdx, JoinOtherIdx,
                       Len(tables[last.other].columns)))

\* The rows join returns for the operands and the columns of the call made
\* last, as an outer join or as an inner join.
JoinOfLast(outer_join) ==
  LET t == tables[last.self]
      other == tables[last.other]
      pk_join == /\ other.primary_key # None
                 /\ Lower(last.cols[2]) = Lower(other.primary_key)
  IN IF outer_join = last.arg[1] THEN RowsNow(last.res)
     ELSE JoinRows(lists[t.rows], t.column_indices[Lower(last.cols[1])],
                   other, lists, rowobjs,
                   other.column_indices[Lower(last.cols[2])],
                   pk_join, outer_join)

\* C7: the inner join has at most as many rows as the outer join, and as
\* many exactly when every row of self has a matching row in other.
InnerJoinNoLongerThanOuter ==
  Joined =>
    /\ Len(JoinOfLast(FALSE)) <= Len(JoinOfLast(TRUE))
    /\ (Len(JoinOfLast(FALSE)) = Len(JoinOfLast(TRUE))
          <=> \A x \in 1..Len(RowsNow(last.self)) :
                HasMatch(RowsNow(last.self)[x], RowsNow(last.other),
                         JoinSelfIdx, JoinOtherIdx))

\* C8: the table join returns has the columns of self followed by those of
\* other without other's join column, rows of len(self.columns) +
\* len(other.columns) - 1 values, and no primary key.
JoinResultSchema ==
  Joined =>
    LET r == tables[last.res]
        t == tables[last.self]
        other == tables[last.other]
    IN /\ r.columns = Merged(t.columns, other.columns, JoinOtherIdx)
       /\ \A k \in 1..Len(RowsNow(last.res)) :
            Len(RowsNow(last.res)[k])
              = Len(t.columns) + Len(other.columns) - 1
       /\ r.primary_key = None
       /\ r.keys = NoKeys

\* A join has returned a table with a row.
JoinReturnedRows == Joined /\ Len(RowsNow(last.res)) > 0

\* The column names, in lower case, that the operands of the call made
\* last have in common.
CommonNames ==
  {Lower(c) : c \in RangeOf(tables[last.self].columns)}
    \cap {Lower(c) : c \in RangeOf(tables[last.other].columns)}

\* C9: with no join column given, join raises when the tables share no
\* column name or more than one, and joins on the shared column when they
\* share exactly one; with self_col given and no other_col, other_col is
\* the same name.
JoinColumnResolution ==
  last.op = "join" =>
    /\ (last.arg[2] = None /\ Cardinality(CommonNames) # 1)
         => (last.outcome = "raised" /\ last.res = 0)
    /\ (last.arg[2] = None /\ Cardinality(CommonNames) = 1)
         => /\ last.outcome = "table"
            /\ Lower(last.cols[1]) \in CommonNames
            /\ last.cols[2] = last.cols[1]
            /\ tables[last.res].columns
                 = Merged(tables[last.self].columns,
                          tables[last.other].columns, JoinOtherIdx)
    /\ (last.arg[2] # None /\ last.arg[3] = None)
         => last.cols = <<last.arg[2], last.arg[2]>>

\* A join without join columns of tables sharing no column name has raised.
NaturalJoinRejected ==
  /\ last.op = "join"
  /\ last.arg[2] = None
  /\ CommonNames = {}
  /\ last.outcome = "raised"

\* The index in rws of the first row equal to r.
FirstIndex(rws, r) ==
  CHOOSE k \in 1..Len(rws) :
    rws[k] = r /\ \A m \in 1..Len(rws) : rws[m] = r => k <= m

\* C10: without a primary key, union returns every row of self or of other
\* exactly once, ordered by first appearance in the rows of self followed
\* by the rows of other.
UnionKeepsEachRowOnce ==
  (/\ last.op = "union"
   /\ last.outcome = "table"
   /\ tables[last.self].primary_key = None) =>
    LET all == RowsNow(last.self) \o RowsNow(last.other)
        res == RowsNow(last.res)
    IN /\ RangeOf(res) = RangeOf(all)
       /\ \A x, y \in 1..Len(res) :
            x < y => FirstIndex(all, res[x]) < FirstIndex(all, res[y])

(***************************************************************************)
(* Properties of union with a primary key and of schema mismatch.          *)
(***************************************************************************)
\* What union with a primary key in column pk is to do with the rows
\* others, acc being the rows so far: <<"rows", rows>>, or <<"error">> at
\* the first row whose key is that of a row of acc of another content.
RECURSIVE KeyedUnion(_, _, _)
KeyedUnion(acc, others, pk) ==
  IF others = <<>> THEN <<"rows", acc>>
  ELSE LET r == Head(others)
           same == {k \in 1..Len(acc) : acc[k][pk + 1] = r[pk + 1]}
       IN IF same = {} THEN KeyedUnion(Append(acc, r), Tail(others), pk)
          ELSE IF \E k \in same : acc[k] # r THEN <<"error">>
          ELSE KeyedUnion(acc, Tail(others), pk)

\* C11: with a primary key and equal columns, union takes the rows of
\* other in order: a row with an unseen key is appended, a row whose key
\* was seen with the same content is skipped, and a row whose key was seen
\* with another content makes union raise, returning no table.
UnionWithKeyTakesRowsInOrder ==
  (/\ last.op = "union"
   /\ tables[last.self].primary_key # None
   /\ tables[last.self].columns = tables[last.other].columns) =>
    LET want == KeyedUnion(RowsNow(last.self), RowsNow(last.other),
                           tables[last.self].pk_column_index)
    IN IF want[1] = "error"
       THEN last.outcome = "raised" /\ last.res = 0
       ELSE last.outcome = "table" /\ RowsNow(last.res) = want[2]

\* C12: union, intersect and minus raise, returning no value, when the
\* column list of other differs from that of self.
SchemaMismatchRaises ==
  (/\ last.op \in {"union", "intersect", "minus"}
   /\ tables[last.self].columns # tables[last.other].columns)
    => last.outcome = "raised"

(***************************************************************************)
(* Properties of intersect, minus and distinct.                            *)
(***************************************************************************)
\* The rows of rws whose content is (want) or is not (~want) the content
\* of some row of others, in the order of rws.
RowsByPresence(rws, others, want) ==
  LET Wanted(r) == (r \in RangeOf(others)) = want
  IN SelectSeq(rws, Wanted)

\* The call made last is op on two tables of equal columns.
SameColumnsCall(op) ==
  /\ last.op = op
  /\ tables[last.self].columns = tables[last.other].columns

\* C13: intersect returns exactly the rows of self whose content is that
\* of some row of other, in the order of self, with the columns of self.
IntersectKeepsCommonRows ==
  SameColumnsCall("intersect") =>
    /\ last.outcome = "table"
    /\ tables[last.res].columns = tables[last.self].columns
    /\ RowsNow(last.res)
         = RowsByPresence(RowsNow(last.self), RowsNow(last.other), TRUE)

\* An intersect has kept a row of self and dropped another.
IntersectDroppedRow ==
  /\ SameColumnsCall("intersect")
  /\ last.outcome = "table"
  /\ Len(RowsNow(last.res)) > 0
  /\ Len(RowsNow(last.res)) < Len(RowsNow(last.self))

\* C14: minus returns exactly the rows of self whose content is that of no
\* row of other, in the order of self, with the columns of self.
MinusKeepsAbsentRows ==
  SameColumnsCall("minus") =>
    /\ last.outcome = "table"
    /\ tables[last.res].columns = tables[last.self].columns
    /\ RowsNow(last.res)
         = RowsByPresence(RowsNow(last.self), RowsNow(last.other), FALSE)

\* A minus has kept a row of self and dropped another.
MinusDroppedRow ==
  /\ SameColumnsCall("minus")
  /\ last.outcome = "table"
  /\ Len(RowsNow(last.res)) > 0
  /\ Len(RowsNow(last.res)) < Len(RowsNow(last.self))

\* No two rows of rws have the same content.
NoRepeats(rws) == \A x, y \in 1..Len(rws) : rws[x] = rws[y] => x = y

\* The rows distinct returns when applied to table number i.
DistinctOf(i) ==
  LET refs == AppendNew(rowobjs, <<>>, lists[tables[i].rows])
  IN [k \in 1..Len(refs) |-> rowobjs[refs[k]]]

\* C15: distinct returns a table with the columns of self in which every
\* row content of self occurs exactly once, ordered by first occurrence in
\* self; distinct applied to that result returns the same rows.
DistinctKeepsFirstOccurrences ==
  last.op = "distinct" =>
    /\ last.outcome = "table"
    /\ tables[last.res].columns = tables[last.self].columns
    /\ NoRepeats(RowsNow(last.res))
    /\ RangeOf(RowsNow(last.res)) = RangeOf(RowsNow(last.self))
    /\ \A x, y \in 1..Len(RowsNow(last.res)) :
         x < y => FirstIndex(RowsNow(last.self), RowsNow(last.res)[x])
                    < FirstIndex(RowsNow(last.self), RowsNow(last.res)[y])
    /\ DistinctOf(last.res) = RowsNow(last.res)
    /\ TableEq(tables[last.res],
               [tables[last.res] EXCEPT !.rows = Len(lists) + 1],
               Append(lists, AppendNew(rowobjs, <<>>,
                                       lists[tables[last.res].rows])),
               rowobjs)

\* A distinct has dropped a repeated row and kept two rows.
DistinctDroppedRow ==
  /\ last.op = "distinct"
  /\ last.outcome = "table"
  /\ Len(RowsNow(last.res)) > 1
  /\ Len(RowsNow(last.res)) < Len(RowsNow(last.self))

\* C16: when self has a primary key, distinct returns a table with the
\* columns, the rows in their order, and the primary key of self.
DistinctWithKeyIsCopy ==
  (last.op = "distinct" /\ tables[last.self].primary_key # None) =>
    /\ last.outcome = "table"
    /\ Snapshot(tables[last.res], lists, rowobjs)
         = Snapshot(tables[last.self], lists, rowobjs)

(***************************************************************************)
(* Properties of __eq__.                                                   *)
(***************************************************************************)
\* C17: two tables compare equal exactly when they have the same column
\* list in the same order and every row content occurs the same number of
\* times in both.
EqualIsSameColumnsAndRowBag ==
  last.op = "eq" =>
    (last.outcome = "True"
       <=> /\ tables[last.self].columns = tables[last.other].columns
           /\ SameRows(RowsNow(last.self), RowsNow(last.other)))

(***************************************************************************)
(* Properties of orderBy.                                                  *)
(***************************************************************************)
\* The comparison of the rows a and b of table t on the columns cs of an
\* orderBy call: decided by the first column of cs on which they differ,
\* reversed when that column is written with a leading "-".
LexCmp(t, a, b, cs) ==
  LET col(j) == IndexOfColumn(t, ColumnOf(Lower(Strip(cs[j])))) + 1
      differ == {j \in 1..Len(cs) : a[col(j)] # b[col(j)]}
      first == CHOOSE j \in differ : \A k \in differ : j <= k
  IN IF differ = {} THEN 0
     ELSE IF Descending(Lower(Strip(cs[first])))
     THEN Cmp(b[col(first)], a[col(first)])
     ELSE Cmp(a[col(first)], b[col(first)])

\* The place of row number i of rws in the stable sort of rws.
PlaceOf(t, rws, i, cs) ==
  Cardinality({j \in 1..Len(rws) : LexCmp(t, rws[j], rws[i], cs) < 0})
    + Cardinality({j \in 1..(i - 1) : LexCmp(t, rws[j], rws[i], cs) = 0})
    + 1

\* C18: orderBy returns the rows of self as a permutation sorted by the
\* listed columns in the listed order, "-" meaning descending, rows that
\* compare equal on all listed columns keeping the order they had in self.
OrderBySortsStably ==
  [][(last'.op = "orderBy" /\ last'.outcome = "table") =>
       LET t == tables[last'.self]
           before == RowsOf(t, lists, rowobjs)
           after == RowsOf(tables'[last'.res], lists', rowobjs')
       IN /\ Len(after) = Len(before)
          /\ \A i \in 1..Len(before) :
               after[PlaceOf(t, before, i, last'.arg[1])] = before[i]]_vars

\* An orderBy has moved rows and returned two different rows that compare
\* equal on the listed columns.
OrderByKeptTie ==
  /\ last.op = "orderBy"
  /\ last.outcome = "table"
  /\ RowsNow(last.res) # made[last.self].rows
  /\ \E x, y \in 1..Len(RowsNow(last.res)) :
       /\ x < y
       /\ RowsNow(last.res)[x] # RowsNow(last.res)[y]
       /\ LexCmp(tables[last.self], RowsNow(last.res)[x],
                 RowsNow(last.res)[y], last.arg[1]) = 0

(***************************************************************************)
(* Properties of summarize with no aggregator.                             *)
(***************************************************************************)
\* The values of the row r of table t in the columns named by cs.
GroupOf(t, r, cs) ==
  [j \in 1..Len(cs) |-> r[IndexOfColumn(t, Strip(cs[j])) + 1]]

\* Every name of cs is a column of table t.
ColumnsKnown(t, cs) ==
  \A j \in 1..Len(cs) :
    \E k \in 1..Len(t.columns) : Lower(t.columns[k]) = Lower(Strip(cs[j]))

\* The sum of the last values of the rows rws, which are integers.
RECURSIVE SumOfLast(_)
SumOfLast(rws) ==
  IF rws = <<>> THEN 0
  ELSE Head(rws)[Len(Head(rws))][2] + SumOfLast(Tail(rws))

\* C19: summarize(groupColumns) returns the columns groupColumns followed
\* by count and exactly one row for each tuple of group values occurring
\* in self, with the number of rows of self having that tuple; the counts
\* sum to len(self).
SummarizeCountsGroups ==
  (last.op = "summarize" /\ ColumnsKnown(tables[last.self], last.arg[1])) =>
    LET t == tables[last.self]
        cs == last.arg[1]
        n == Len(cs)
        rws == RowsNow(last.self)
        groups == {GroupOf(t, rws[k], cs) : k \in 1..Len(rws)}
    IN /\ last.outcome = "table"
       /\ tables[last.res].columns
            = [j \in 1..n |-> Strip(cs[j])] \o <<"count">>
       /\ LET res == RowsNow(last.res)
          IN /\ {SubSeq(res[k], 1, n) : k \in 1..Len(res)} = groups
             /\ Len(res) = Cardinality(groups)
             /\ \A k \in 1..Len(res) :
                  res[k][n + 1]
                    = IntV(Cardinality({x \in 1..Len(rws) :
                             GroupOf(t, rws[x], cs) = SubSeq(res[k], 1, n)}))
             /\ SumOfLast(res) = Len(rws)

\* C20: for every table t, summarize([]) returns a table with the single
\* column count and exactly one row, whose value is len(t).
SummarizeAllCountsRows ==
  (last.op = "summarize" /\ last.arg[1] = <<>>) =>
    /\ last.outcome = "table"
    /\ tables[last.res].columns = <<"count">>
    /\ RowsNow(last.res) = <<<<IntV(Len(RowsNow(last.self)))>>>>

(***************************************************************************)
(* Properties of project.                                                  *)
(***************************************************************************)
\* No two columns of table t have the same name, whatever the case.
DistinctNames(t) ==
  \A j, k \in 1..Len(t.columns) :
    Lower(t.columns[j]) = Lower(t.columns[k]) => j = k

\* The names of cs, stripped and in lower case.
LowerNames(cs) == {Lower(Strip(cs[j])) : j \in 1..Len(cs)}

\* C21: project(cols) returns the columns cols in the requested order, the
\* i-th row holding the values of the i-th row of self in those columns,
\* with the primary key of self when it is among cols and none otherwise.
ProjectKeepsRequestedColumns ==
  (/\ last.op = "project"
   /\ DistinctNames(tables[last.self])
   /\ ColumnsKnown(tables[last.self], last.arg[1])) =>
    LET t == tables[last.self]
        cs == last.arg[1]
    IN /\ last.outcome = "table"
       /\ tables[last.res].columns = [j \in 1..Len(cs) |-> Strip(cs[j])]
       /\ RowsNow(last.res)
            = [k \in 1..Len(RowsNow(last.self)) |->
                 GroupOf(t, RowsNow(last.self)[k], cs)]
       /\ tables[last.res].primary_key
            = IF t.primary_key # None /\ Lower(t.primary_key) \in LowerNames(cs)
              THEN t.primary_key ELSE None

\* A project has reordered the columns of a table with rows, keeping its
\* primary key.
ProjectReordered ==
  /\ last.op = "project"
  /\ last.outcome = "table"
  /\ DistinctNames(tables[last.self])
  /\ Len(last.arg[1]) = 2
  /\ tables[last.res].columns # tables[last.self].columns
  /\ tables[last.res].primary_key # None
  /\ Len(RowsNow(last.res)) > 0

\* The column lists projected in the check of composition.
ProjectLists ==
  ProjectArgs \cup {<<"a">>, <<"a", "b">>, <<"c", "b">>, <<"c">>}

\* project(cs) of table t in the heap ls, ro, as project and Table()
\* compute it: whether a table is returned, the table, and the heap.
ProjectResult(t, ls, ro, cs) ==
  LET p == ProjectOn(t, ls, ro, cs)
      r == TableInit(p.d, p.ls, p.ro)
  IN IF p.known /\ r.ok
     THEN [ok |-> TRUE, t |-> r.t, ls |-> p.ls, ro |-> p.ro]
     ELSE [ok |-> FALSE, t |-> <<>>, ls |-> ls, ro |-> ro]

\* project(A) and then project(B) of table number i gives what project(B)
\* gives.
ProjectTwice(i, A, B) ==
  LET once == ProjectResult(tables[i], lists, rowobjs, A)
      twice == ProjectResult(once.t, once.ls, once.ro, B)
      direct == ProjectResult(tables[i], lists, rowobjs, B)
  IN once.ok =>
       /\ twice.ok /\ direct.ok
       /\ Snapshot(twice.t, twice.ls, twice.ro)
            = Snapshot(direct.t, direct.ls, direct.ro)
       /\ TableEq(twice.t,
                  [direct.t EXCEPT !.rows = Len(twice.ls) + 1],
                  Append(twice.ls,
                         [k \in 1..Len(direct.ls[direct.t.rows]) |->
                            Len(twice.ro) + k]),
                  twice.ro \o RowsOf(direct.t, direct.ls, direct.ro))

\* C22: for every table t (each table when it is returned) and column
\* lists A, B with every column of B in A and every column of A in t,
\* project(project(t, A), B) has the columns, the rows in their order and
\* the primary key of project(t, B), and equals it.
ProjectComposes ==
  (last.outcome = "table" /\ DistinctNames(tables[last.res])) =>
    \A A, B \in ProjectLists :
      (/\ LowerNames(B) \subseteq LowerNames(A)
       /\ ColumnsKnown(tables[last.res], A)) => ProjectTwice(last.res, A, B)

\* A table with a primary key and rows has been projected on two columns,
\* and the result on one of the two.
ProjectedTwice ==
  /\ last.op = "project"
  /\ last.outcome = "table"
  /\ Len(last.arg[1]) = 1
  /\ Len(RowsNow(last.res)) > 0
  /\ \E i \in 1..Len(tables) :
       /\ i # last.self
       /\ tables[i].primary_key # None
       /\ DistinctNames(tables[i])
       /\ LET once == ProjectResult(tables[i], lists, rowobjs, <<"b", "a">>)
          IN /\ once.ok
             /\ Snapshot(once.t, once.ls, once.ro) = made[last.self]

(***************************************************************************)
(* Properties of rename.                                                   *)
(***************************************************************************)
\* The name the column c carries after rename(m).
Renamed(m, c) ==
  IF \E k \in DOMAIN m : Lower(k) = Lower(c)
  THEN m[CHOOSE k \in DOMAIN m : Lower(k) = Lower(c)]
  ELSE c

\* C23: rename(mapping) returns a table with the same rows in which each
\* column whose name is a key of the mapping, whatever the case, carries
\* the mapped name and every other column keeps its name; the primary key
\* is the new name of its column when that column is renamed, and the
\* same name otherwise, and designates the same column as before.
RenameKeepsRowsAndKeyColumn ==
  last.op = "rename" =>
    LET t == tables[last.self]
        m == last.arg[1]
    IN /\ last.outcome = "table"
       /\ RowsNow(last.res) = RowsNow(last.self)
       /\ tables[last.res].columns
            = [j \in 1..Len(t.columns) |-> Renamed(m, t.columns[j])]
       /\ t.primary_key = None => tables[last.res].primary_key = None
       /\ t.primary_key # None =>
            /\ tables[last.res].primary_key = Renamed(m, t.primary_key)
            /\ tables[last.res].pk_column_index = t.pk_column_index

(***************************************************************************)
(* Properties of update and of the Rows of a table.                        *)
(***************************************************************************)
\* The values of the Row that a function of UpdateFns returns for a Row of
\* the values r: the last column is given the value of the first.
UpdatedValues(r) == [r EXCEPT ![Len(r)] = r[1]]

\* C24: update(fn) returns a table with the columns of self whose i-th row
\* is the values of the Row fn returned for the i-th row of self, whether
\* fn writes into the Row it is given or builds a new one.
UpdateTakesReturnedRows ==
  [][last'.op = "update" =>
       LET before == RowsOf(tables[last'.self], lists, rowobjs)
       IN /\ last'.outcome = "table"
          /\ tables'[last'.res].columns = tables[last'.self].columns
          /\ RowsOf(tables'[last'.res], lists', rowobjs')
               = [k \in 1..Len(before) |-> UpdatedValues(before[k])]]_vars

\* C25: assigning a value to a column of a Row obtained from a table does
\* not change any row of any table.
RowAssignmentLeavesTableUnchanged ==
  [][last'.op = "setattr" =>
       \A i \in 1..Len(tables) :
         RowsOf(tables[i], lists', rowobjs') = RowsOf(tables[i], lists, rowobjs)]_vars

(***************************************************************************)
(* Properties of limit.                                                    *)
(***************************************************************************)
Min(a, b) == IF a < b THEN a ELSE b

\* C26: limit(n) returns a table whose rows are the first min(n, len(self))
\* rows of self in order, and whose name, columns and primary key are those
\* of self.
LimitKeepsNameColumnsAndKey ==
  last.op = "limit" =>
    /\ last.outcome = "table"
    /\ RowsNow(last.res)
         = SubSeq(RowsNow(last.self), 1,
                  Min(last.arg[1], Len(RowsNow(last.self))))
    /\ tables[last.res].name = tables[last.self].name
    /\ tables[last.res].columns = tables[last.self].columns
    /\ tables[last.res].primary_key = tables[last.self].primary_key

\* limit on a table without primary key.
LimitKeepsRowsNameAndColumns ==
  (last.op = "limit" /\ tables[last.self].primary_key = None) =>
    LimitKeepsNameColumnsAndKey

(***************************************************************************)
(* Properties of row lookup and of the key index.                          *)
(***************************************************************************)
\* The value of the primary-key column in the row r of table t.
KeyOf(t, r) == r[t.pk_column_index + 1]

\* The primary-key values that occur in the rows of table i now.
KeyValues(i) ==
  IF tables[i].primary_key = None THEN {}
  ELSE {KeyOf(tables[i], r) : r \in RangeOf(RowsNow(i))}

\* Looking every key value of table i up by key gives a row with that key.
KeyIndexAgrees(i) ==
  \A v \in KeyValues(i) :
    LET ref == RowByKey(tables[i], lists, v)
    IN ref # 0 /\ KeyOf(tables[i], rowobjs[ref]) = v

\* What C27 requires of the call table[id] recorded in last.
DispatchOfLast ==
  LET t == tables[last.self]
      id == last.arg[1]
  IN IF id[1] = "int" /\ id \notin KeyValues(last.self)
     THEN (0 <= id[2] /\ id[2] < Len(lists[t.rows])) =>
            /\ last.outcome = "row"
            /\ last.res = lists[t.rows][id[2] + 1]
     ELSE id \in KeyValues(last.self) =>
            /\ last.outcome = "row"
            /\ KeyOf(t, rowobjs[last.res]) = id

\* C27: row(id) returns the row at position id when id is an integer that
\* is not the primary-key value of any row, and otherwise the row whose
\* primary-key value is id.
RowDispatchesOnKeyThenPosition ==
  last.op = "row" => DispatchOfLast

\* The key index of table i is the one __init__ would build from the rows
\* of the table as they are now.
KeyIndexCurrent(i) ==
  LET t == tables[i]
  IN t.primary_key # None =>
       t.keys = KeysOf(lists[t.rows], rowobjs, t.pk_column_index)

\* The same on a table whose key index is current.
RowDispatchesWhenIndexCurrent ==
  (last.op = "row" /\ KeyIndexCurrent(last.self)) => DispatchOfLast

\* C30: for every table with a primary key, after any sequence of operator
\* calls, looking up by key each primary-key value that occurs in the
\* table's rows returns a row of the table whose primary-key column has
\* that value.
KeyIndexAgreesWithRows ==
  \A i \in 1..Len(tables) : KeyIndexAgrees(i)

(***************************************************************************)
(* Properties of construction without a columns field.                     *)
(***************************************************************************)
\* C28: when the description has no columns field, construction names the
\* columns c0, c1, ..., c(N-1), N the length of the first row, and fails
\* when there are no rows or the first row has no values.
ColumnsSynthesizedFromFirstRow ==
  (last.op = "construct" /\ ~last.arg[1].hasColumns) =>
    LET d == last.arg[1]
    IN IF d.rows = <<>> \/ Len(d.rows[1].vals) = 0
       THEN last.outcome = "raised"
       ELSE last.outcome = "table" =>
              tables[last.res].columns
                = [i \in 1..Len(d.rows[1].vals) |-> CName(i - 1)]

\* A table was constructed with two synthesized columns.
ColumnsSynthesized ==
  /\ last.op = "construct" /\ ~last.arg[1].hasColumns
  /\ last.outcome = "table"
  /\ tables[last.res].columns = <<"c0", "c1">>

\* Construction without columns was refused because the first row is empty.
EmptyFirstRowRejected ==
  /\ last.op = "construct" /\ ~last.arg[1].hasColumns
  /\ last.arg[1].rows # <<>>
  /\ last.arg[1].rows[1] = InputRow(<<>>)
  /\ last.outcome = "raised"

(***************************************************************************)
(* Properties of serialization.                                            *)
(***************************************************************************)
\* The table built from the text of table a is b: what C29 requires.
SameAfterReload(a, b) ==
  /\ TableEq(a, b, lists, rowobjs)
  /\ b.columns = a.columns
  /\ RowsOf(b, lists, rowobjs) = RowsOf(a, lists, rowobjs)
  /\ b.primary_key = a.primary_key
  /\ b.name = a.name
  /\ b.comment = a.comment
  /\ b.version = a.version

\* C29: building a table from a valid description, serializing it with its
\* rows and building again from the text gives a table equal to the first,
\* with the same columns, rows, primary key, name, comment and version.
ReloadGivesSameTable ==
  last.op = "reload" =>
    /\ last.outcome = "table"
    /\ SameAfterReload(tables[last.self], tables[last.res])

\* The same for tables whose name and comment are not the empty string.
ReloadGivesSameTableUnlessEmptyText ==
  (/\ last.op = "reload"
   /\ tables[last.self].name # ""
   /\ tables[last.self].comment # "") =>
    /\ last.outcome = "table"
    /\ SameAfterReload(tables[last.self], tables[last.res])

====
